---- MODULE Spec2Model ----
(***************************************************************************)
(* A model of spacing-guild's route planner: the Mentat calculations and   *)
(* the Navigator engine that ranks trades and answers navigate().          *)
(*                                                                         *)
(* Numbers.  The source computes in IEEE doubles.  The inputs of this      *)
(* model are integers, every volumePerUnit is a power of two and every     *)
(* pair of coordinates is at an integer distance, so each double the code  *)
(* computes before the final division of calculateProfitPerDU is exact.    *)
(* A score is kept as the fraction num/den of that last division, den > 0; *)
(* a correctly rounded quotient orders and equates such fractions as the   *)
(* rationals do, so scores are compared by cross-multiplication.           *)
(* Math.ceil(quantity * (1 + 0.01 * margin)) is the exact ceiling for the  *)
(* quantities (at most 12) and margins (0 to 100) that occur here.         *)
(* Array.prototype.sort is taken to be stable, as ECMAScript 2019 requires.*)
(***************************************************************************)
EXTENDS Integers, Sequences, FiniteSets, TLC

(***************************************************************************)
(* JavaScript values that are not numbers of the domain.                   *)
(***************************************************************************)
\* a field a caller left out of the params object (params.range, params.fuelMargin)
Undefined == 0 - 1000

\* the null getCurrentFuelUnitCost returns when FUEL is not listed
NullCost == 0 - 2000

\* the null getCurrentLocation returns when no location has the ship's symbol
Null == [null |-> TRUE]

\* an array reference that is undefined or null: ILocation.marketplace left out,
\* the null of getCurrentMarketplace, _tradeOptions before its first assignment
NoArray == [present |-> FALSE, items |-> << >>]

\* an array that exists
Arr(s) == [present |-> TRUE, items |-> s]

\* `a && a.length`: the array exists and is not empty
HasItems(a) == a.present /\ Len(a.items) > 0

\* ToNumber on a price: null * n is 0 in JavaScript
ToNumber(v) == IF v = NullCost THEN 0 ELSE v

(***************************************************************************)
(* Arithmetic helpers: Math.round, Math.ceil, Math.floor, Math.sqrt on the *)
(* non-negative rationals num/den the code applies them to.                *)
(***************************************************************************)
\* Math.round(num/den): halves round up
MathRound(num, den) == (2 * num + den) \div (2 * den)

\* Math.ceil(num/den)
MathCeil(num, den) == (num + den - 1) \div den

\* Math.floor(num/den)
MathFloor(num, den) == num \div den

\* Math.sqrt of a perfect square (the only arguments the model's coordinates give)
MathSqrt(n) == CHOOSE r \in 0..n : r * r = n

(***************************************************************************)
(* Ship classes of enums/index.js and the per-class fuel figures.          *)
(***************************************************************************)
HM_MK_III == "HM-MK-III"
GR_MK_III == "GR-MK-III"
GR_MK_II == "GR-MK-II"
JW_MK_I == "JW-MK-I"

\* the multiplier of the switch, in thousandths: .25, or 0.188 for HM_MK_III
MultiplierMilli(type) == IF type = HM_MK_III THEN 188 ELSE 250

\* the penalty as it would be if it did not look at the origin's type
PenaltyEverywhere(type, isPlanet) ==
    IF type = HM_MK_III THEN 1
    ELSE IF type = GR_MK_III THEN 4
    ELSE IF type = GR_MK_II THEN 3
    ELSE 2

\* the penalty of the switch
Penalty(type, isPlanet) ==
    IF ~isPlanet THEN 0
    ELSE IF type = HM_MK_III THEN 1
    ELSE IF type = GR_MK_III THEN 4
    ELSE IF type = GR_MK_II THEN 3
    ELSE 2

(***************************************************************************)
(* Mentat: the calculations.                                               *)
(***************************************************************************)
calculateDistance(ax, ay, bx, by) ==
    MathSqrt((ax - bx) * (ax - bx) + (ay - by) * (ay - by))

calculateLocationDistance(a, b) == calculateDistance(a.x, a.y, b.x, b.y)

calculateFuelToTravel(ship, location, destination) ==
    LET isPlanet == location.type = "PLANET"
        rounded == MathRound(calculateLocationDistance(location, destination), 1)
    IN  MathRound(rounded * MultiplierMilli(ship.type), 1000)
            + Penalty(ship.type, isPlanet) + 1

\* the held fuel as it would be if the cargo were not looked at
HeldFuelNone(ship) == 0

\* ship.cargo.filter(c => c.good === "FUEL")[0]?.quantity || 0
HeldFuel(ship) ==
    LET lines == SelectSeq(ship.cargo, LAMBDA c : c.good = "FUEL")
    IN  IF Len(lines) = 0 THEN 0 ELSE lines[1].quantity

\* calculateFuelQuantity as it would be with the margin left out of the product
calculateFuelQuantityNoMargin(ship, fuelToTravel, margin) ==
    IF HeldFuel(ship) >= fuelToTravel THEN 0 ELSE fuelToTravel - HeldFuel(ship)

\* margin = 0 is a default parameter: it replaces an undefined argument
calculateFuelQuantity(ship, fuelToTravel, margin) ==
    LET m == IF margin = Undefined THEN 0 ELSE margin
        currentFuel == HeldFuel(ship)
        quantity == IF currentFuel >= fuelToTravel THEN 0 ELSE fuelToTravel - currentFuel
    IN  MathCeil(quantity * (100 + m), 100)

calculateFuelToTravelCost(amount, unitCost) == amount * ToNumber(unitCost)

calculateFuelToTravelVolume(amount) == amount * 1

\* calculateGoodQuantity as it would be if it rounded up
calculateGoodQuantityRoundedUp(space, volumePerUnit) == MathCeil(space, volumePerUnit)

calculateGoodQuantity(space, volumePerUnit) == MathFloor(space, volumePerUnit)

calculateGoodVolume(amount, good) == amount * good.volumePerUnit

\* calculateRemainingSpaceAfterRefuel as it would be if the fuel took no space
calculateRemainingSpaceIgnoringFuel(ship, fuelQuantity) == ship.spaceAvailable

calculateRemainingSpaceAfterRefuel(ship, fuelQuantity) ==
    ship.spaceAvailable - calculateFuelToTravelVolume(fuelQuantity)

\* the score as the fraction of the final division; 0 is 0/1
calculateProfitPerDU(aGood, bGood, ship, location, destination, fuelUnitCost) ==
    LET distance == calculateLocationDistance(location, destination)
        fuel == calculateFuelToTravel(ship, location, destination)
        fuelCost == calculateFuelToTravelCost(fuel, fuelUnitCost)
        \* calculateGoodProfitPerVol times aGood.volumePerUnit * bGood.volumePerUnit
        perVolScaled == aGood.sellPricePerUnit * bGood.volumePerUnit
                            - bGood.purchasePricePerUnit * aGood.volumePerUnit
        scale == aGood.volumePerUnit * bGood.volumePerUnit
    IN  IF distance # 0
        THEN [num |-> perVolScaled * (ship.spaceAvailable - fuel) - fuelCost * scale,
              den |-> scale * distance]
        ELSE [num |-> 0, den |-> 1]

\* validateRange as it would be with >= for >
validateRangeInclusive(ship, range, location) ==
    range >= calculateDistance(ship.x, ship.y, location.x, location.y)

validateRange(ship, range, location) ==
    range > calculateDistance(ship.x, ship.y, location.x, location.y)

\* x < y on two scores
ScoreLess(x, y) == x.num * y.den < y.num * x.den

\* the test of the rebuild as it would be if it kept a score of 0
ScoreNonNegative(x) == x.num >= 0

\* profitPerDU > 0
ScorePositive(x) == x.num > 0

\* the comparator of sortByKey is negative or zero for (a, b): a may stay before b
RECURSIVE InsertByKey(_, _)
InsertByKey(sorted, e) ==
    IF Len(sorted) = 0 THEN << e >>
    ELSE IF ScoreLess(Head(sorted).profitPerDU, e.profitPerDU)
         THEN << e >> \o sorted
         ELSE << Head(sorted) >> \o InsertByKey(Tail(sorted), e)

\* sortByKey as it would be if it returned the array in the order given
sortByKeyAsGiven(arr) == arr

\* Array.prototype.sort with that comparator: descending, stable (ES2019)
RECURSIVE sortByKey(_)
sortByKey(arr) ==
    IF Len(arr) = 0 THEN << >>
    ELSE InsertByKey(sortByKey(SubSeq(arr, 1, Len(arr) - 1)), arr[Len(arr)])

(***************************************************************************)
(* Navigator: the engine's fields, the call in progress and its outcome.   *)
(***************************************************************************)
VARIABLES
    phase,                  \* "new" before the constructor ran, "live" once it returned, "failed" when it threw
    initialized,            \* _initialized
    locations,              \* _locations
    ship,                   \* _ship
    currentLocation,        \* _currentLocation
    currentMarketplace,     \* _currentMarketplace
    currentFuelUnitCost,    \* _currentFuelUnitCost
    tradeOptions,           \* _tradeOptions
    call,                   \* the last call: its name, its arguments, and for navigate _tradeOptions as it found it
    outcome,                \* what the last call returned or threw
    mentat                  \* the last calculation a caller made on Mentat directly

vars == << phase, initialized, locations, ship, currentLocation, currentMarketplace,
           currentFuelUnitCost, tradeOptions, call, outcome, mentat >>

\* no calculation was called on Mentat directly
NoCalculation == [op |-> "none"]

\* the three messages navigate throws in strict mode
NoProfitableTrade == "No profitable trades found from this ship's position"
NoTradeInRange == "No profitable trades found in the specified range"
NoFeasibleFuelPlan == "Not able to fuel a profitable trip"

\* a call that returned nothing, a route, or threw
Returned(kind) == [kind |-> kind, error |-> "", destination |-> Null, cargo |-> << >>]
Route(destination, cargo) ==
    [kind |-> "route", error |-> "", destination |-> destination, cargo |-> cargo]
Thrown(message) == [kind |-> "Error", error |-> message, destination |-> Null, cargo |-> << >>]
\* reading a property of undefined or null
TypeError == [kind |-> "TypeError", error |-> "TypeError", destination |-> Null, cargo |-> << >>]

(***************************************************************************)
(* The derived snapshot: setProperties and its three getters.              *)
(***************************************************************************)
\* the locations whose symbol is the ship's, in list order
AtShip(locs, s) == SelectSeq(locs, LAMBDA l : l.symbol = s.location)

getCurrentLocation(locs, s) ==
    IF Len(AtShip(locs, s)) = 0 THEN Null ELSE AtShip(locs, s)[1]

getCurrentMarketplace(locs, s) ==
    IF Len(AtShip(locs, s)) = 0 THEN NoArray ELSE AtShip(locs, s)[1].marketplace

\* marketplace.length on a marketplace that is null or undefined
FuelUnitCostThrows(locs, s) == ~getCurrentMarketplace(locs, s).present

\* getCurrentFuelUnitCost as it would be if it read the price FUEL is sold back at
getCurrentFuelUnitSellPrice(locs, s) ==
    LET fuel == SelectSeq(getCurrentMarketplace(locs, s).items, LAMBDA g : g.symbol = "FUEL")
    IN  IF Len(fuel) = 0 THEN NullCost ELSE fuel[1].sellPricePerUnit

getCurrentFuelUnitCost(locs, s) ==
    LET fuel == SelectSeq(getCurrentMarketplace(locs, s).items, LAMBDA g : g.symbol = "FUEL")
    IN  IF Len(fuel) = 0 THEN NullCost ELSE fuel[1].purchasePricePerUnit

\* the three assignments of setProperties; the third is skipped when its getter throws
setProperties(locs, s, oldCost) ==
    [currentLocation |-> getCurrentLocation(locs, s),
     currentMarketplace |-> getCurrentMarketplace(locs, s),
     currentFuelUnitCost |-> IF FuelUnitCostThrows(locs, s) THEN oldCost
                             ELSE getCurrentFuelUnitCost(locs, s),
     threw |-> FuelUnitCostThrows(locs, s)]

(***************************************************************************)
(* The rebuild: sortTradeOptions.                                          *)
(***************************************************************************)
\* the loop over the goods as it would be without the test of quantityAvailable
RECURSIVE GoodsLoopAnyStock(_, _, _, _, _, _)
GoodsLoopAnyStock(marketplace, j, destination, s, here, cost) ==
    IF j > Len(marketplace) THEN << >>
    ELSE LET destinationGood == marketplace[j]
             found == SelectSeq(here.marketplace.items,
                                LAMBDA g : g.symbol = destinationGood.symbol)
             rest == GoodsLoopAnyStock(marketplace, j + 1, destination, s, here, cost)
         IN  IF Len(found) > 0
             THEN LET localGood == found[1]
                      profitPerDU == calculateProfitPerDU(destinationGood, localGood, s,
                                                          here, destination, cost)
                  IN  IF ScorePositive(profitPerDU)
                      THEN << [trade |-> [destination |-> destination,
                                          localGood |-> localGood,
                                          destinationGood |-> destinationGood],
                               profitPerDU |-> profitPerDU] >> \o rest
                      ELSE rest
             ELSE rest

\* the loop over the goods of one destination marketplace, from index j
RECURSIVE GoodsLoop(_, _, _, _, _, _)
GoodsLoop(marketplace, j, destination, s, here, cost) ==
    IF j > Len(marketplace) THEN << >>
    ELSE LET destinationGood == marketplace[j]
             found == SelectSeq(here.marketplace.items,
                                LAMBDA g : g.symbol = destinationGood.symbol)
             rest == GoodsLoop(marketplace, j + 1, destination, s, here, cost)
         IN  IF Len(found) > 0 /\ found[1].quantityAvailable > 0
             THEN LET localGood == found[1]
                      profitPerDU == calculateProfitPerDU(destinationGood, localGood, s,
                                                          here, destination, cost)
                  IN  IF ScorePositive(profitPerDU)
                      THEN << [trade |-> [destination |-> destination,
                                          localGood |-> localGood,
                                          destinationGood |-> destinationGood],
                               profitPerDU |-> profitPerDU] >> \o rest
                      ELSE rest
             ELSE rest

\* the loop over the locations, from index i
RECURSIVE LocationsLoop(_, _, _, _, _)
LocationsLoop(locs, i, s, here, cost) ==
    IF i > Len(locs) THEN << >>
    ELSE LET rest == LocationsLoop(locs, i + 1, s, here, cost)
         IN  IF locs[i].symbol = here.symbol THEN rest
             ELSE IF HasItems(locs[i].marketplace)
                  THEN GoodsLoop(locs[i].marketplace.items, 1, locs[i], s, here, cost) \o rest
                  ELSE rest

\* sortTradeOptions: the value of _tradeOptions when it returns.  Without a
\* marketplace at the current location it returns before the assignment.
sortTradeOptions(locs, s, here, old) ==
    IF ~HasItems(here.marketplace) THEN old
    ELSE Arr(sortByKey(LocationsLoop(locs, 1, s, here, getCurrentFuelUnitCost(locs, s))))

(***************************************************************************)
(* The query: navigate.                                                    *)
(***************************************************************************)
\* if (params.range): undefined and 0 are falsy, every other number is truthy
RangeGiven(params) == params.range # Undefined /\ params.range # 0

\* this._tradeOptions.filter(option => Mentat.validateRange(...))
RangeFilter(options, s, range) ==
    SelectSeq(options, LAMBDA option : validateRange(s, range, option.trade.destination))

\* (localFuel?.quantityAvailable || 0) for the first FUEL good of the current marketplace
LocalFuelAvailable(marketplace) ==
    LET fuel == SelectSeq(marketplace.items, LAMBDA g : g.symbol = "FUEL")
    IN  IF Len(fuel) = 0 THEN 0 ELSE fuel[1].quantityAvailable

\* trades.splice(i, 1)
Splice(trades, i) == SubSeq(trades, 1, i - 1) \o SubSeq(trades, i + 1, Len(trades))

\* the loop "Get the first destination that can be fueled", from index i (the
\* source's i + 1); `continue` runs the loop's i++ after the splice
RECURSIVE FuelScan(_, _, _, _, _, _)
FuelScan(trades, i, s, here, marketplace, margin) ==
    IF i > Len(trades)
    THEN [found |-> FALSE, trades |-> trades, destination |-> Null,
          fuelQuantity |-> 0, fuelVolume |-> 0]
    ELSE LET trade == trades[i].trade
             fuelToTravel == calculateFuelToTravel(s, here, trade.destination)
             fuelQuantity == calculateFuelQuantity(s, fuelToTravel, margin)
             fuelVolume == calculateFuelToTravelVolume(fuelQuantity)
         IN  IF fuelQuantity > LocalFuelAvailable(marketplace)
             THEN FuelScan(Splice(trades, i), i + 1, s, here, marketplace, margin)
             ELSE IF s.spaceAvailable < fuelQuantity
                  THEN FuelScan(Splice(trades, i), i + 1, s, here, marketplace, margin)
                  ELSE [found |-> TRUE, trades |-> trades, destination |-> trade.destination,
                        fuelQuantity |-> fuelQuantity, fuelVolume |-> fuelVolume]

\* the first iteration of that loop reads this.currentLocation.type and
\* this.currentMarketplace.filter
FuelScanThrows(here, marketplace) == here = Null \/ ~marketplace.present

\* the loop "fill up remaining cargo space", from index i
RECURSIVE FillCargo(_, _, _, _)
FillCargo(trades, i, remainingSpace, cargo) ==
    IF i > Len(trades) THEN cargo
    ELSE IF remainingSpace <= 0 THEN cargo
    ELSE LET trade == trades[i].trade
             fits == calculateGoodQuantity(remainingSpace, trade.localGood.volumePerUnit)
             goodQuantity == IF fits > trade.localGood.quantityAvailable
                             THEN trade.localGood.quantityAvailable
                             ELSE fits
             goodVolume == calculateGoodVolume(goodQuantity, trade.localGood)
         IN  FillCargo(trades, i + 1, remainingSpace - goodVolume,
                       Append(cargo, [good |-> trade.localGood.symbol,
                                      quantity |-> goodQuantity,
                                      totalVolume |-> goodVolume]))

\* the restriction to the chosen destination as it would be if it kept every trade
ToDestinationKeepAll(trades, destination) == trades

\* trades.filter(option => option.trade.destination.symbol === destination.symbol)
ToDestination(trades, destination) ==
    SelectSeq(trades, LAMBDA option : option.trade.destination.symbol = destination.symbol)

\* Fail as it would be if strict mode returned on an empty range instead of throwing
FailQuietOutOfRange(strict, message) ==
    IF strict /\ message # NoTradeInRange THEN Thrown(message) ELSE Returned("empty")

\* a failure of navigate: thrown in strict mode, an empty return otherwise
Fail(strict, message) == IF strict THEN Thrown(message) ELSE Returned("empty")

\* navigate(params, strict) on an engine with the given fields: what it returns or
\* throws, and _tradeOptions when it ends.  Without a range filter `trades` is
\* this._tradeOptions itself, so the splices of the fuel loop are made on the field.
navigate(options, s, here, marketplace, params, strict) ==
    IF ~options.present THEN [outcome |-> TypeError, tradeOptions |-> options]
    ELSE IF Len(options.items) = 0
    THEN [outcome |-> Fail(strict, NoProfitableTrade), tradeOptions |-> options]
    ELSE LET trades == IF RangeGiven(params)
                       THEN RangeFilter(options.items, s, params.range)
                       ELSE options.items
         IN  IF Len(trades) = 0
             THEN [outcome |-> Fail(strict, NoTradeInRange), tradeOptions |-> options]
             ELSE IF FuelScanThrows(here, marketplace)
             THEN [outcome |-> TypeError, tradeOptions |-> options]
             ELSE LET scan == FuelScan(trades, 1, s, here, marketplace, params.fuelMargin)
                      after == IF RangeGiven(params) THEN options ELSE Arr(scan.trades)
                      toDestination == ToDestination(scan.trades, scan.destination)
                      cargo == FillCargo(toDestination, 1,
                                   calculateRemainingSpaceAfterRefuel(s, scan.fuelQuantity),
                                   << [good |-> "FUEL", quantity |-> scan.fuelQuantity,
                                       totalVolume |-> scan.fuelVolume] >>)
                  IN  IF ~scan.found
                      THEN [outcome |-> Fail(strict, NoFeasibleFuelPlan), tradeOptions |-> after]
                      ELSE [outcome |-> Route(scan.destination, cargo), tradeOptions |-> after]

(***************************************************************************)
(* The inputs the callers supply: goods, locations, ships, params.         *)
(***************************************************************************)
\* the FUEL a poorly stocked market can sell
LowFuelStock == 5

\* the FUEL a ship may already hold in its cargo
MaxHeldFuel == 4

\* the space of a nearly full ship
SmallSpace == 6

Good(symbol, quantityAvailable, volumePerUnit, purchasePricePerUnit, sellPricePerUnit) ==
    [symbol |-> symbol, quantityAvailable |-> quantityAvailable,
     volumePerUnit |-> volumePerUnit, purchasePricePerUnit |-> purchasePricePerUnit,
     sellPricePerUnit |-> sellPricePerUnit]

Location(symbol, type, x, y, marketplace) ==
    [symbol |-> symbol, type |-> type, x |-> x, y |-> y, marketplace |-> marketplace]

\* the places, every two of them at an integer distance
PlaceA(marketplace) == Location("A", "PLANET", 0, 0, marketplace)
PlaceB(marketplace) == Location("B", "MOON", 3, 4, marketplace)
PlaceC(marketplace) == Location("C", "PLANET", 6, 0, marketplace)
PlaceD(marketplace) == Location("D", "ASTEROID", 3, 0, marketplace)
PlaceE(marketplace) == Location("E", "GAS_GIANT", 3, 0 - 4, marketplace)
\* a station in orbit of B, at B's coordinates
PlaceF(marketplace) == Location("F", "ORBITAL_STATION", 3, 4, marketplace)

MarketA(fuelStock) ==
    Arr(<< Good("FUEL", fuelStock, 1, 1, 1),
           Good("METAL", 45, 1, 5, 4),
           Good("DRONES", 3, 2, 20, 30) >>)
MarketANoFuel == Arr(<< Good("METAL", 45, 1, 5, 4), Good("DRONES", 0, 2, 20, 18) >>)
MarketB == Arr(<< Good("METAL", 50, 1, 9, 10), Good("DRONES", 10, 2, 27, 28) >>)
MarketC == Arr(<< Good("METAL", 50, 1, 19, 20), Good("FUEL", 0, 1, 4, 3) >>)
MarketD == Arr(<< Good("FUEL", 2, 1, 2, 1), Good("METAL", 40, 1, 7, 8) >>)
MarketF == Arr(<< Good("METAL", 50, 1, 29, 30) >>)

\* section 8's scenario: A lists FUEL and METAL, B buys METAL at 10
ScenarioLocations ==
    << PlaceA(Arr(<< Good("FUEL", 100, 1, 1, 1), Good("METAL", 45, 1, 5, 4) >>)),
       PlaceB(Arr(<< Good("METAL", 50, 1, 9, 10) >>)) >>

LocationLists ==
    { << PlaceA(MarketA(100)), PlaceB(MarketB), PlaceC(MarketC), PlaceD(MarketD),
         PlaceE(Arr(<< >>)) >>,
      << PlaceA(MarketA(LowFuelStock)), PlaceB(MarketB), PlaceC(MarketC), PlaceD(MarketD),
         PlaceE(NoArray) >>,
      << PlaceA(MarketANoFuel), PlaceB(MarketB), PlaceC(MarketC) >>,
      << PlaceA(Arr(<< >>)), PlaceB(MarketB), PlaceC(MarketC), PlaceF(MarketF),
         PlaceE(Arr(<< >>)) >>,
      ScenarioLocations }

\* the cargo of a ship that holds `held` units of FUEL
Holding(held) ==
    IF held = 0 THEN << >>
    ELSE << [good |-> "FUEL", quantity |-> held, totalVolume |-> held] >>

Ship(location, x, y, held, spaceAvailable, type) ==
    [location |-> location, x |-> x, y |-> y, cargo |-> Holding(held),
     spaceAvailable |-> spaceAvailable, type |-> type]

\* section 8's ship: at A, the default class, 50 free, no fuel held
ScenarioShip == Ship("A", 0, 0, 0, 50, JW_MK_I)

Ships ==
    { ScenarioShip,
      Ship("A", 0, 0, MaxHeldFuel, 50, JW_MK_I),
      Ship("A", 0, 0, 0, SmallSpace, JW_MK_I),
      Ship("B", 3, 4, 0, 50, JW_MK_I),
      Ship("D", 3, 0, 0, 50, JW_MK_I),
      Ship("E", 3, 0 - 4, MaxHeldFuel, 50, JW_MK_I),
      Ship("Z", 0, 0, 0, 50, JW_MK_I) }

\* navigate's default params, and the params objects callers pass
DefaultParams == [range |-> 0, fuelMargin |-> 5]

Params ==
    { DefaultParams,
      [range |-> Undefined, fuelMargin |-> 10],
      [range |-> 0, fuelMargin |-> 100],
      [range |-> 6, fuelMargin |-> 0],
      [range |-> 3, fuelMargin |-> 5],
      [range |-> 7, fuelMargin |-> Undefined],
      [range |-> 0 - 1, fuelMargin |-> 5] }

\* the arguments recorded for a call that takes no params
NoParams == [range |-> Undefined, fuelMargin |-> Undefined]

(***************************************************************************)
(* The state machine.                                                      *)
(***************************************************************************)
Init ==
    /\ phase = "new"
    /\ initialized = FALSE
    /\ locations = << >>
    /\ ship = Null
    /\ currentLocation = Null
    /\ currentMarketplace = NoArray
    /\ currentFuelUnitCost = Undefined
    /\ tradeOptions = NoArray
    /\ call = [op |-> "none", params |-> NoParams, strict |-> FALSE, ranked |-> NoArray]
    /\ outcome = Returned("none")
    /\ mentat = NoCalculation

\* new Navigator(locs, s): updateLocationsData, updateShipData, sortTradeOptions,
\* then _initialized = true; a TypeError of setProperties leaves no engine
Construct(locs, s) ==
    LET props == setProperties(locs, s, currentFuelUnitCost) IN
    /\ phase = "new"
    /\ locations' = locs
    /\ ship' = s
    /\ currentLocation' = props.currentLocation
    /\ currentMarketplace' = props.currentMarketplace
    /\ currentFuelUnitCost' = props.currentFuelUnitCost
    /\ call' = [op |-> "construct", params |-> NoParams, strict |-> FALSE,
                ranked |-> NoArray]
    /\ UNCHANGED mentat
    /\ IF props.threw
       THEN /\ phase' = "failed"
            /\ outcome' = TypeError
            /\ UNCHANGED << initialized, tradeOptions >>
       ELSE /\ phase' = "live"
            /\ initialized' = TRUE
            /\ tradeOptions' = sortTradeOptions(locs, s, props.currentLocation, tradeOptions)
            /\ outcome' = Returned("ok")

UpdateLocationsData(locs) ==
    LET props == setProperties(locs, ship, currentFuelUnitCost) IN
    /\ phase = "live"
    /\ locations' = locs
    /\ call' = [op |-> "updateLocationsData", params |-> NoParams, strict |-> FALSE,
                ranked |-> NoArray]
    /\ UNCHANGED << phase, initialized, ship, mentat >>
    /\ IF ~initialized
       THEN /\ outcome' = Returned("ok")
            /\ UNCHANGED << currentLocation, currentMarketplace, currentFuelUnitCost,
                            tradeOptions >>
       ELSE /\ currentLocation' = props.currentLocation
            /\ currentMarketplace' = props.currentMarketplace
            /\ currentFuelUnitCost' = props.currentFuelUnitCost
            /\ IF props.threw
               THEN /\ outcome' = TypeError
                    /\ UNCHANGED tradeOptions
               ELSE /\ outcome' = Returned("ok")
                    /\ tradeOptions' = sortTradeOptions(locs, ship, props.currentLocation,
                                                        tradeOptions)

UpdateShipData(s) ==
    LET props == setProperties(locations, s, currentFuelUnitCost) IN
    /\ phase = "live"
    /\ ship' = s
    /\ call' = [op |-> "updateShipData", params |-> NoParams, strict |-> FALSE,
                ranked |-> NoArray]
    /\ UNCHANGED << phase, initialized, locations, mentat >>
    /\ currentLocation' = props.currentLocation
    /\ currentMarketplace' = props.currentMarketplace
    /\ currentFuelUnitCost' = props.currentFuelUnitCost
    /\ IF props.threw
       THEN /\ outcome' = TypeError
            /\ UNCHANGED tradeOptions
       ELSE /\ outcome' = Returned("ok")
            /\ tradeOptions' = IF initialized
                               THEN sortTradeOptions(locations, s, props.currentLocation,
                                                     tradeOptions)
                               ELSE tradeOptions

Navigate(params, strict) ==
    LET run == navigate(tradeOptions, ship, currentLocation, currentMarketplace,
                        params, strict) IN
    /\ phase = "live"
    /\ call' = [op |-> "navigate", params |-> params, strict |-> strict,
                ranked |-> tradeOptions]
    /\ outcome' = run.outcome
    /\ tradeOptions' = run.tradeOptions
    /\ UNCHANGED << phase, initialized, locations, ship, currentLocation,
                    currentMarketplace, currentFuelUnitCost, mentat >>

Next ==
    \/ \E locs \in LocationLists, s \in Ships : Construct(locs, s)
    \/ \E locs \in LocationLists : UpdateLocationsData(locs)
    \/ \E s \in Ships : UpdateShipData(s)
    \/ \E params \in Params, strict \in BOOLEAN : Navigate(params, strict)

Spec == Init /\ [][Next]_vars

(***************************************************************************)
(* Mentat called directly: its methods are public and static, and a caller *)
(* may apply them to any ship, locations and goods, without an engine.     *)
(***************************************************************************)
\* the largest fuelToTravel passed to calculateFuelQuantity
MaxFuelToTravel == 6

\* a class name the switch of calculateFuelToTravel does not list
UnlistedClass == "XX-MK-0"

ShipClasses == { HM_MK_III, GR_MK_III, GR_MK_II, JW_MK_I, UnlistedClass }

\* the places as origins and destinations; their marketplaces are not read
MentatPlaces ==
    { PlaceA(NoArray), PlaceB(NoArray), PlaceC(NoArray), PlaceD(NoArray), PlaceE(NoArray),
      PlaceF(NoArray) }

\* a ship whose cargo also holds a line that is not FUEL, before the FUEL line if any
WithMetal(s) ==
    [s EXCEPT !.cargo = << [good |-> "METAL", quantity |-> 7, totalVolume |-> 7] >> \o @]

\* ships of every class, and ships of the default class by what they hold
ShipsByClass == { Ship("A", 0, 0, 0, 50, type) : type \in ShipClasses }
ShipsByCargo ==
    { Ship("A", 0, 0, held, 50, JW_MK_I) : held \in 0..MaxHeldFuel }
        \cup { WithMetal(Ship("A", 0, 0, held, 50, JW_MK_I)) : held \in {0, MaxHeldFuel} }

\* the margins passed to calculateFuelQuantity, Undefined when the argument is left out
Margins == { Undefined, 5, 10, 100 }

\* what is passed to calculateProfitPerDU: goods bought at B, goods sold at A, a roomy
\* and a nearly full ship, origins, destinations and fuel unit costs
DestinationGoods == { MarketB.items[k] : k \in 1..Len(MarketB.items) }
LocalGoods == { MarketA(100).items[k] : k \in 2..Len(MarketA(100).items) }
TradingShips == { ScenarioShip, Ship("A", 0, 0, 0, SmallSpace, JW_MK_I) }
Origins == { PlaceA(NoArray), PlaceB(NoArray) }
Destinations == { PlaceB(NoArray), PlaceC(NoArray), PlaceF(NoArray) }
FuelUnitCosts == { NullCost, 2 }

CalculateFuelToTravel(s, location, destination) ==
    /\ mentat' = [op |-> "calculateFuelToTravel", ship |-> s, location |-> location,
                  destination |-> destination,
                  result |-> calculateFuelToTravel(s, location, destination)]
    /\ UNCHANGED << phase, initialized, locations, ship, currentLocation, currentMarketplace,
                    currentFuelUnitCost, tradeOptions, call, outcome >>

CalculateFuelQuantity(s, fuelToTravel, margin) ==
    /\ mentat' = [op |-> "calculateFuelQuantity", ship |-> s, fuelToTravel |-> fuelToTravel,
                  margin |-> margin,
                  result |-> calculateFuelQuantity(s, fuelToTravel, margin)]
    /\ UNCHANGED << phase, initialized, locations, ship, currentLocation, currentMarketplace,
                    currentFuelUnitCost, tradeOptions, call, outcome >>

CalculateProfitPerDU(aGood, bGood, s, location, destination, fuelUnitCost) ==
    /\ mentat' = [op |-> "calculateProfitPerDU", aGood |-> aGood, bGood |-> bGood,
                  ship |-> s, location |-> location, destination |-> destination,
                  fuelUnitCost |-> fuelUnitCost,
                  result |-> calculateProfitPerDU(aGood, bGood, s, location, destination,
                                                  fuelUnitCost)]
    /\ UNCHANGED << phase, initialized, locations, ship, currentLocation, currentMarketplace,
                    currentFuelUnitCost, tradeOptions, call, outcome >>

MentatNext ==
    \/ \E s \in ShipsByClass, location \in MentatPlaces, destination \in MentatPlaces :
           CalculateFuelToTravel(s, location, destination)
    \/ \E s \in ShipsByCargo, fuelToTravel \in 1..MaxFuelToTravel, margin \in Margins :
           CalculateFuelQuantity(s, fuelToTravel, margin)
    \/ \E aGood \in DestinationGoods, bGood \in LocalGoods, s \in TradingShips,
          location \in Origins, destination \in Destinations,
          fuelUnitCost \in FuelUnitCosts :
           CalculateProfitPerDU(aGood, bGood, s, location, destination, fuelUnitCost)

MentatSpec == Init /\ [][MentatNext]_vars

(***************************************************************************)
(* What the claims speak of.                                               *)
(***************************************************************************)
\* the last call was navigate, on a constructed engine
Queried == phase = "live" /\ call.op = "navigate"

\* the last call was navigate and it returned a route
RouteReturned == Queried /\ outcome.kind = "route"

\* the last call was the constructor or an update, on a constructed engine
Updated == phase = "live" /\ call.op \in {"construct", "updateLocationsData", "updateShipData"}

\* the distance from the ship to an option's destination
ShipDistance(option) ==
    calculateDistance(ship.x, ship.y, option.trade.destination.x, option.trade.destination.y)

\* the ranked options a query with these params may choose from: all of them, or
\* with a range > 0 those strictly closer to the ship than the range
Eligible(ranked, params) ==
    SelectSeq(ranked, LAMBDA option : params.range > 0 => params.range > ShipDistance(option))

\* the FUEL the current marketplace can sell, 0 when it lists none
FuelOnSale ==
    LET fuel == { k \in 1..Len(currentMarketplace.items) :
                      currentMarketplace.items[k].symbol = "FUEL" }
    IN  IF fuel = {} THEN 0
        ELSE currentMarketplace.items[CHOOSE k \in fuel : \A l \in fuel : k <= l].quantityAvailable

\* the fuel to buy for a trip to `destination` with this margin
RequiredFuel(destination, margin) ==
    calculateFuelQuantity(ship, calculateFuelToTravel(ship, currentLocation, destination),
                          margin)

\* an option is fuel-feasible: its fuel is on sale here and fits the ship
FuelFeasible(option, margin) ==
    /\ RequiredFuel(option.trade.destination, margin) <= FuelOnSale
    /\ RequiredFuel(option.trade.destination, margin) <= ship.spaceAvailable

\* the sum of totalVolume over the lines of a cargo list
RECURSIVE TotalVolume(_)
TotalVolume(cargo) ==
    IF Len(cargo) = 0 THEN 0 ELSE Head(cargo).totalVolume + TotalVolume(Tail(cargo))

\* the ship's current location is known and has no marketplace, or an empty one
NoMarketHere == currentLocation # Null /\ ~HasItems(currentLocation.marketplace)

\* the list a build from the current locations and ship is specified to give:
\* empty without a marketplace at the ship's location, the sorted options otherwise
FreshBuild ==
    LET here == getCurrentLocation(locations, ship)
    IN  IF here = Null THEN << >>
        ELSE IF ~HasItems(here.marketplace) THEN << >>
        ELSE sortByKey(LocationsLoop(locations, 1, ship, here,
                                     getCurrentFuelUnitCost(locations, ship)))

\* navigate(params, strict) from the current state
NavigateNow(params, strict) ==
    navigate(tradeOptions, ship, currentLocation, currentMarketplace, params, strict).outcome

(***************************************************************************)
(* C1.  A returned route goes to the destination of the highest-ranked     *)
(* eligible option that is fuel-feasible: no feasible option ranked above  *)
(* the chosen one is passed over.                                          *)
(***************************************************************************)
C1_FirstFeasibleChosen ==
    RouteReturned =>
        LET candidates == Eligible(call.ranked.items, call.params)
            margin == call.params.fuelMargin
        IN  \E i \in 1..Len(candidates) :
                /\ FuelFeasible(candidates[i], margin)
                /\ \A j \in 1..(i - 1) : ~FuelFeasible(candidates[j], margin)
                /\ outcome.destination = candidates[i].trade.destination

(***************************************************************************)
(* C2.  In every returned route the leading FUEL line asks for no more     *)
(* FUEL than the current marketplace has on sale (0 when it lists none),   *)
(* and the cargo's total volume is at most the ship's spaceAvailable.      *)
(***************************************************************************)
C2_RouteWithinStockAndSpace ==
    RouteReturned =>
        /\ outcome.cargo[1].good = "FUEL"
        /\ outcome.cargo[1].quantity <= FuelOnSale
        /\ TotalVolume(outcome.cargo) <= ship.spaceAvailable

\* a route that buys all the FUEL on sale and fills the ship to the last unit
C2_Witness ==
    /\ RouteReturned
    /\ outcome.cargo[1].quantity = FuelOnSale
    /\ FuelOnSale > 0
    /\ Len(outcome.cargo) > 1
    /\ TotalVolume(outcome.cargo) = ship.spaceAvailable

(***************************************************************************)
(* C3.  With the ship at a location that has no marketplace, navigate      *)
(* returns the empty result in lenient mode and throws NoProfitableTrade   *)
(* in strict mode.                                                         *)
(***************************************************************************)
C3_NoMarketNoTrade ==
    (Queried /\ NoMarketHere) =>
        outcome = IF call.strict THEN Thrown(NoProfitableTrade) ELSE Returned("empty")

(***************************************************************************)
(* C4.  After construction and after every update the ranked list is the   *)
(* list a fresh build from the current locations and ship gives; it is     *)
(* empty when the ship's location has no marketplace.                      *)
(***************************************************************************)
C4_ListIsFreshBuild ==
    (Updated /\ outcome.kind = "ok") => tradeOptions.items = FreshBuild

(***************************************************************************)
(* C5.  Construction, updates and navigate in lenient mode never raise:    *)
(* navigate returns a route or the empty result.                           *)
(***************************************************************************)
C5_LenientNeverRaises ==
    /\ call.op \in {"construct", "updateLocationsData", "updateShipData"} => outcome.kind = "ok"
    /\ (call.op = "navigate" /\ ~call.strict) => outcome.kind \in {"route", "empty"}

(***************************************************************************)
(* C6.  In strict mode navigate throws NoProfitableTrade exactly when the  *)
(* ranked list is empty, else NoTradeInRange exactly when a range filter   *)
(* is applied and leaves nothing, else NoFeasibleFuelPlan exactly when no  *)
(* remaining option is fuel-feasible, and returns a route otherwise.       *)
(* Stated for the calls that end in one of these four ways.                *)
(***************************************************************************)
C6_StrictFailureKinds ==
    (Queried /\ call.strict /\ outcome.kind # "TypeError") =>
        LET ranked == call.ranked.items
            remaining == IF RangeGiven(call.params)
                         THEN SelectSeq(ranked, LAMBDA option :
                                  call.params.range > ShipDistance(option))
                         ELSE ranked
            feasible == \E i \in 1..Len(remaining) :
                            FuelFeasible(remaining[i], call.params.fuelMargin)
        IN  IF Len(ranked) = 0 THEN outcome = Thrown(NoProfitableTrade)
            ELSE IF Len(remaining) = 0 THEN outcome = Thrown(NoTradeInRange)
            ELSE IF ~feasible THEN outcome = Thrown(NoFeasibleFuelPlan)
            ELSE outcome.kind = "route"

(***************************************************************************)
(* C7.  From one engine state and with the same params, lenient navigate   *)
(* returns the empty result exactly when strict navigate throws one of the *)
(* three errors; in every other case the two calls end alike, with the     *)
(* same destination and the same cargo.                                    *)
(***************************************************************************)
C7_ModesDifferOnlyInReport ==
    phase = "live" =>
        \A params \in Params :
            LET lenient == NavigateNow(params, FALSE)
                strict == NavigateNow(params, TRUE)
            IN  /\ lenient.kind = "empty" <=>
                       (strict.kind = "Error" /\ strict.error \in
                            {NoProfitableTrade, NoTradeInRange, NoFeasibleFuelPlan})
                /\ lenient.kind # "empty" =>
                       /\ lenient.kind = strict.kind
                       /\ lenient.destination = strict.destination
                       /\ lenient.cargo = strict.cargo

\* a state in which the two modes part for each of the three causes, and agree on a route
C7_Witness ==
    /\ phase = "live"
    /\ \E params \in Params :
           /\ NavigateNow(params, FALSE).kind = "empty"
           /\ NavigateNow(params, TRUE) = Thrown(NoTradeInRange)
    /\ \E params \in Params :
           /\ NavigateNow(params, FALSE).kind = "empty"
           /\ NavigateNow(params, TRUE) = Thrown(NoFeasibleFuelPlan)
    /\ \E params \in Params :
           /\ NavigateNow(params, FALSE).kind = "route"
           /\ NavigateNow(params, TRUE) = NavigateNow(params, FALSE)

(***************************************************************************)
(* C8.  Section 8's scenario: with A(0,0) listing FUEL and METAL, B(3,4)   *)
(* buying METAL at 10, and the ship at A with 50 free and no fuel,         *)
(* navigate() with the default params returns B and the cargo              *)
(* [FUEL 5 volume 5, METAL 45 volume 45].                                  *)
(***************************************************************************)
C8_Scenario ==
    (Queried /\ locations = ScenarioLocations /\ ship = ScenarioShip
        /\ call.params = DefaultParams) =>
        /\ outcome.kind = "route"
        /\ outcome.destination.symbol = "B"
        /\ outcome.cargo = << [good |-> "FUEL", quantity |-> 5, totalVolume |-> 5],
                              [good |-> "METAL", quantity |-> 45, totalVolume |-> 45] >>

\* navigate() was called on the scenario's engine and returned
C8_Witness ==
    /\ Queried
    /\ locations = ScenarioLocations
    /\ ship = ScenarioShip
    /\ call.params = DefaultParams
    /\ call.ranked = sortTradeOptions(ScenarioLocations, ScenarioShip,
                                      ScenarioLocations[1], NoArray)
    /\ outcome.kind = "route"

(***************************************************************************)
(* C9.  A returned cargo starts with the trip-fuel line, FUEL in the       *)
(* required quantity with that volume; the lines after it follow, in       *)
(* order, a prefix of the ranked options to the chosen destination, which  *)
(* are in descending score order.                                          *)
(***************************************************************************)
C9_CargoShape ==
    RouteReturned =>
        LET required == RequiredFuel(outcome.destination, call.params.fuelMargin)
            toChosen == SelectSeq(call.ranked.items, LAMBDA option :
                            option.trade.destination = outcome.destination)
            goods == Tail(outcome.cargo)
        IN  /\ Len(outcome.cargo) >= 1
            /\ Head(outcome.cargo) =
                   [good |-> "FUEL", quantity |-> required, totalVolume |-> required]
            /\ Len(goods) <= Len(toChosen)
            /\ \A k \in 1..Len(goods) : goods[k].good = toChosen[k].trade.localGood.symbol
            /\ \A k \in 1..Len(toChosen) : \A l \in k..Len(toChosen) :
                   ~ScoreLess(toChosen[k].profitPerDU, toChosen[l].profitPerDU)

\* a route with two goods lines, returned while the ranked list also held
\* options to other destinations, one of them ranked between the two goods
C9_Witness ==
    /\ RouteReturned
    /\ Len(outcome.cargo) = 3
    /\ outcome.cargo[2].good # outcome.cargo[3].good
    /\ \E k \in 2..(Len(call.ranked.items) - 1) :
           /\ call.ranked.items[k].trade.destination # outcome.destination
           /\ call.ranked.items[k - 1].trade.destination = outcome.destination
           /\ call.ranked.items[k + 1].trade.destination = outcome.destination

(***************************************************************************)
(* C10.  With params.range > 0 a returned route's destination is strictly  *)
(* closer to the ship than the range; and when the ranked list is not      *)
(* empty but no option is strictly within range, navigate returns the      *)
(* empty result (lenient) or throws NoTradeInRange (strict).               *)
(***************************************************************************)
C10_RangeIsStrict ==
    (Queried /\ call.params.range > 0) =>
        /\ outcome.kind = "route" =>
               call.params.range > calculateDistance(ship.x, ship.y,
                                       outcome.destination.x, outcome.destination.y)
        /\ (/\ call.ranked.present
            /\ Len(call.ranked.items) > 0
            /\ \A k \in 1..Len(call.ranked.items) :
                   call.params.range <= ShipDistance(call.ranked.items[k]))
           => outcome = IF call.strict THEN Thrown(NoTradeInRange) ELSE Returned("empty")

\* strict navigate threw NoTradeInRange although the list held an option exactly at
\* the range and options beyond it
C10_Witness ==
    /\ Queried
    /\ call.params.range > 0
    /\ call.strict
    /\ outcome = Thrown(NoTradeInRange)
    /\ \E k \in 1..Len(call.ranked.items) :
           ShipDistance(call.ranked.items[k]) = call.params.range
    /\ \E k \in 1..Len(call.ranked.items) :
           ShipDistance(call.ranked.items[k]) > call.params.range

(***************************************************************************)
(* C11.  When the caller supplies no fuelMargin, by leaving params out or  *)
(* by passing a params object without that field, the trip-fuel line of a  *)
(* returned route is ceil(needed * 1.05): the margin defaults to 5.        *)
(***************************************************************************)
C11_DefaultMarginFive ==
    (RouteReturned /\ (call.params = DefaultParams \/ call.params.fuelMargin = Undefined)) =>
        LET fuelToTravel == calculateFuelToTravel(ship, currentLocation, outcome.destination)
            needed == IF HeldFuel(ship) >= fuelToTravel THEN 0
                      ELSE fuelToTravel - HeldFuel(ship)
        IN  outcome.cargo[1].quantity = MathCeil(needed * 105, 100)

(***************************************************************************)
(* C12.  In every reachable state every option of the ranked list has a    *)
(* strictly positive score: after construction, after an update and after  *)
(* a navigate call alike.                                                  *)
(***************************************************************************)
C12_ScoresPositive ==
    tradeOptions.present =>
        \A k \in 1..Len(tradeOptions.items) :
            /\ tradeOptions.items[k].profitPerDU.num > 0
            /\ tradeOptions.items[k].profitPerDU.den > 0

\* a rebuild that met a pairing of score 0 (a seller at distance 0) and kept others
C12_Witness ==
    /\ Updated
    /\ outcome.kind = "ok"
    /\ HasItems(currentLocation.marketplace)
    /\ Len(tradeOptions.items) > 0
    /\ \E k \in 1..Len(locations) :
           /\ locations[k].symbol # currentLocation.symbol
           /\ calculateLocationDistance(currentLocation, locations[k]) = 0
           /\ \E j \in 1..Len(locations[k].marketplace.items) :
                  \E l \in 1..Len(currentMarketplace.items) :
                      /\ currentMarketplace.items[l].symbol =
                             locations[k].marketplace.items[j].symbol
                      /\ currentMarketplace.items[l].quantityAvailable > 0

(***************************************************************************)
(* C13.  In every reachable state the ranked list is in non-increasing     *)
(* score order, and after a rebuild it is a permutation of the options the *)
(* rebuild kept: the sort drops none and duplicates none.                  *)
(***************************************************************************)
C13_SortedPermutation ==
    /\ tradeOptions.present =>
           \A k \in 1..(Len(tradeOptions.items) - 1) :
               tradeOptions.items[k].profitPerDU.num * tradeOptions.items[k + 1].profitPerDU.den
                   >= tradeOptions.items[k + 1].profitPerDU.num
                          * tradeOptions.items[k].profitPerDU.den
    /\ (Updated /\ outcome.kind = "ok" /\ HasItems(currentLocation.marketplace)) =>
           LET kept == LocationsLoop(locations, 1, ship, currentLocation, currentFuelUnitCost)
               list == tradeOptions.items
               Count(x, seq) == Cardinality({ k \in 1..Len(seq) : seq[k] = x })
           IN  /\ Len(list) = Len(kept)
               /\ \A k \in 1..Len(kept) : Count(kept[k], list) = Count(kept[k], kept)

\* a rebuild whose sort moved options: at least three kept, the list not in the
\* order the loops produced them
C13_Witness ==
    /\ Updated
    /\ outcome.kind = "ok"
    /\ HasItems(currentLocation.marketplace)
    /\ Len(tradeOptions.items) >= 3
    /\ tradeOptions.items #
           LocationsLoop(locations, 1, ship, currentLocation, currentFuelUnitCost)

(***************************************************************************)
(* C14.  On a constructed engine the derived snapshot follows the latest   *)
(* inputs: the current location is the member of the location list with    *)
(* the ship's location symbol, the current marketplace is that location's  *)
(* marketplace, and the fuel unit cost is the purchase price of the FUEL   *)
(* good of that marketplace.                                               *)
(***************************************************************************)
C14_SnapshotConsistent ==
    phase = "live" =>
        LET members == { k \in 1..Len(locations) : locations[k].symbol = ship.location }
        IN  members # {} =>
                LET here == locations[CHOOSE k \in members : \A l \in members : k <= l]
                    goods == here.marketplace.items
                    fuel == { k \in 1..Len(goods) : goods[k].symbol = "FUEL" }
                IN  /\ currentLocation = here
                    /\ currentMarketplace = here.marketplace
                    /\ fuel # {} =>
                           currentFuelUnitCost =
                               goods[CHOOSE k \in fuel : \A l \in fuel : k <= l].purchasePricePerUnit

\* an update moved the ship to a market whose FUEL is bought and sold at different
\* prices, from a location where FUEL cost something else
C14_Witness ==
    /\ phase = "live"
    /\ call.op = "updateShipData"
    /\ outcome.kind = "ok"
    /\ \E k \in 1..Len(currentMarketplace.items) :
           /\ currentMarketplace.items[k].symbol = "FUEL"
           /\ currentMarketplace.items[k].purchasePricePerUnit = currentFuelUnitCost
           /\ currentMarketplace.items[k].purchasePricePerUnit #
                  currentMarketplace.items[k].sellPricePerUnit

(***************************************************************************)
(* C15.  calculateFuelToTravel is round(round(distance) * multiplier) +    *)
(* penalty + 1, with the multiplier and the planet penalty of the ship's   *)
(* class (0.25 and 2 for a class that is not listed) and a penalty of 0    *)
(* unless the origin is a planet; so it is at least 1, and 1 + penalty     *)
(* when origin and destination coincide.                                   *)
(***************************************************************************)
C15_FuelToTravel ==
    mentat.op = "calculateFuelToTravel" =>
        LET type == mentat.ship.type
            distance == calculateLocationDistance(mentat.location, mentat.destination)
            thousandths == IF type = "HM-MK-III" THEN 188 ELSE 250
            onPlanet == CASE type = "HM-MK-III" -> 1
                          [] type = "GR-MK-III" -> 4
                          [] type = "GR-MK-II" -> 3
                          [] OTHER -> 2
            penalty == IF mentat.location.type = "PLANET" THEN onPlanet ELSE 0
            \* round(distance * multiplier), the distance being whole
            travel == (2 * distance * thousandths + 1000) \div 2000
        IN  /\ mentat.result = travel + penalty + 1
            /\ mentat.result >= 1
            /\ distance = 0 => mentat.result = 1 + penalty

\* a ship of an unlisted class leaving a planet for a place at the same coordinates
C15_Witness ==
    /\ mentat.op = "calculateFuelToTravel"
    /\ mentat.ship.type \notin { HM_MK_III, GR_MK_III, GR_MK_II, JW_MK_I }
    /\ mentat.location.type = "PLANET"
    /\ calculateLocationDistance(mentat.location, mentat.destination) = 0
    /\ mentat.result = 3

(***************************************************************************)
(* C16.  calculateFuelQuantity is never negative, is 0 whenever the fuel   *)
(* held in the cargo is at least fuelToTravel, and is otherwise            *)
(* ceil((fuelToTravel - held) * (1 + margin/100)), held being 0 when the   *)
(* cargo has no FUEL line.                                                 *)
(***************************************************************************)
C16_FuelQuantity ==
    mentat.op = "calculateFuelQuantity" =>
        LET cargo == mentat.ship.cargo
            lines == { k \in 1..Len(cargo) : cargo[k].good = "FUEL" }
            held == IF lines = {} THEN 0
                    ELSE cargo[CHOOSE k \in lines : \A l \in lines : k <= l].quantity
            margin == IF mentat.margin = Undefined THEN 0 ELSE mentat.margin
            missing == mentat.fuelToTravel - held
        IN  /\ mentat.result >= 0
            /\ held >= mentat.fuelToTravel => mentat.result = 0
            /\ held < mentat.fuelToTravel =>
                   \* the least whole number that is at least missing * (100 + margin) / 100
                   /\ mentat.result * 100 >= missing * (100 + margin)
                   /\ (mentat.result - 1) * 100 < missing * (100 + margin)

\* a ship that holds some of the fuel, behind another cargo line, and buys the rest
\* with a margin that adds to it
C16_Witness ==
    /\ mentat.op = "calculateFuelQuantity"
    /\ Len(mentat.ship.cargo) = 2
    /\ HeldFuel(mentat.ship) > 0
    /\ HeldFuel(mentat.ship) < mentat.fuelToTravel
    /\ mentat.margin > 0
    /\ mentat.result > mentat.fuelToTravel - HeldFuel(mentat.ship)

(***************************************************************************)
(* C17.  calculateProfitPerDU is exactly 0 at distance 0, whatever the     *)
(* goods, the ship and the fuel unit cost; hence the ranked list never     *)
(* holds an option whose destination has the coordinates of the ship's     *)
(* current location.                                                       *)
(***************************************************************************)
\* the first half, on Mentat called directly
C17_ZeroAtDistanceZero ==
    (/\ mentat.op = "calculateProfitPerDU"
     /\ calculateLocationDistance(mentat.location, mentat.destination) = 0)
        => mentat.result.num = 0

\* the consequence, on the engine
C17_NoOptionAtCurrentCoordinates ==
    (phase = "live" /\ tradeOptions.present /\ currentLocation # Null) =>
        \A k \in 1..Len(tradeOptions.items) :
            ~(/\ tradeOptions.items[k].trade.destination.x = currentLocation.x
              /\ tradeOptions.items[k].trade.destination.y = currentLocation.y)

(***************************************************************************)
(* C18.  After a rebuild at a location with a marketplace, the ranked list *)
(* holds an option for a location L and a good g sold at L exactly when L  *)
(* is not the current location, L has a non-empty marketplace, the current *)
(* marketplace lists g's symbol with quantityAvailable > 0, and the score  *)
(* of the pairing is positive; and it holds each such pair once.           *)
(***************************************************************************)
C18_RebuildKeepsExactly ==
    (Updated /\ outcome.kind = "ok" /\ HasItems(currentLocation.marketplace)) =>
        LET local == currentLocation.marketplace.items
            list == tradeOptions.items
            Qualifies(L, g) ==
                /\ L.symbol # currentLocation.symbol
                /\ \E l \in 1..Len(local) :
                       /\ local[l].symbol = g.symbol
                       /\ local[l].quantityAvailable > 0
                       /\ calculateProfitPerDU(g, local[l], ship, currentLocation, L,
                                               currentFuelUnitCost).num > 0
            Count(L, g) ==
                Cardinality({ k \in 1..Len(list) :
                                 /\ list[k].trade.destination = L
                                 /\ list[k].trade.destinationGood = g })
        IN  /\ \A i \in 1..Len(locations) :
                   \A j \in 1..Len(locations[i].marketplace.items) :
                       Count(locations[i], locations[i].marketplace.items[j]) =
                           IF Qualifies(locations[i], locations[i].marketplace.items[j])
                           THEN 1 ELSE 0
            /\ \A k \in 1..Len(list) :
                   \E i \in 1..Len(locations) :
                       /\ list[k].trade.destination = locations[i]
                       /\ \E j \in 1..Len(locations[i].marketplace.items) :
                              list[k].trade.destinationGood = locations[i].marketplace.items[j]

\* a rebuild that kept options and left out a pairing that would pay, because the
\* current marketplace lists the good with nothing available
C18_Witness ==
    /\ Updated
    /\ outcome.kind = "ok"
    /\ HasItems(currentLocation.marketplace)
    /\ Len(tradeOptions.items) > 0
    /\ \E i \in 1..Len(locations) :
           \E j \in 1..Len(locations[i].marketplace.items) :
               \E l \in 1..Len(currentMarketplace.items) :
                   /\ locations[i].symbol # currentLocation.symbol
                   /\ currentMarketplace.items[l].symbol = locations[i].marketplace.items[j].symbol
                   /\ currentMarketplace.items[l].quantityAvailable = 0
                   /\ calculateProfitPerDU(locations[i].marketplace.items[j],
                                           currentMarketplace.items[l], ship, currentLocation,
                                           locations[i], currentFuelUnitCost).num > 0

(***************************************************************************)
(* C19.  The cargo is filled greedily: with remaining starting at          *)
(* spaceAvailable minus the fuel volume, the k-th goods line buys          *)
(* min(floor(remaining / volumePerUnit), quantityAvailable) of its         *)
(* option's local good, at quantity * volumePerUnit of volume, which is    *)
(* taken off remaining; remaining is never negative after a line, and no   *)
(* line is appended once remaining is 0 or less.                           *)
(***************************************************************************)
C19_GreedyFill ==
    RouteReturned =>
        LET cargo == outcome.cargo
            toChosen == SelectSeq(call.ranked.items, LAMBDA option :
                            option.trade.destination = outcome.destination)
            \* the space left before the line at index k of the cargo is appended
            Remaining(k) == ship.spaceAvailable - TotalVolume(SubSeq(cargo, 1, k - 1))
            Min(a, b) == IF a < b THEN a ELSE b
        IN  /\ Len(cargo) - 1 <= Len(toChosen)
            /\ \A k \in 2..Len(cargo) :
                   LET good == toChosen[k - 1].trade.localGood
                   IN  /\ Remaining(k) > 0
                       /\ cargo[k].good = good.symbol
                       /\ cargo[k].quantity =
                              Min(Remaining(k) \div good.volumePerUnit, good.quantityAvailable)
                       /\ cargo[k].totalVolume = cargo[k].quantity * good.volumePerUnit
                       /\ Remaining(k + 1) >= 0
            /\ Len(cargo) - 1 < Len(toChosen) => Remaining(Len(cargo) + 1) <= 0

\* a route whose first goods line took all that was available and whose second took
\* what still fitted, less than was available, leaving space no unit fits in
C19_Witness ==
    /\ RouteReturned
    /\ Len(outcome.cargo) = 3
    /\ \E k \in 1..Len(call.ranked.items) :
           /\ call.ranked.items[k].trade.destination = outcome.destination
           /\ call.ranked.items[k].trade.localGood.symbol = outcome.cargo[2].good
           /\ call.ranked.items[k].trade.localGood.quantityAvailable = outcome.cargo[2].quantity
    /\ \E k \in 1..Len(call.ranked.items) :
           /\ call.ranked.items[k].trade.destination = outcome.destination
           /\ call.ranked.items[k].trade.localGood.symbol = outcome.cargo[3].good
           /\ call.ranked.items[k].trade.localGood.quantityAvailable > outcome.cargo[3].quantity
           /\ outcome.cargo[3].quantity > 0
    /\ TotalVolume(outcome.cargo) < ship.spaceAvailable

(***************************************************************************)
(* C20.  The range filter is applied only when params.range > 0: with a    *)
(* range of 0, a negative range or no range, navigate considers every      *)
(* ranked option, ending as it does with range 0, and never reports        *)
(* NoTradeInRange.                                                         *)
(***************************************************************************)
C20_RangeFilterOnlyWhenPositive ==
    (Queried /\ call.ranked.present /\ ~(call.params.range > 0)) =>
        /\ outcome # Thrown(NoTradeInRange)
        /\ outcome = navigate(call.ranked, ship, currentLocation, currentMarketplace,
                              [range |-> 0, fuelMargin |-> call.params.fuelMargin],
                              call.strict).outcome

(***************************************************************************)
(* C21.  An update is torn only when navigate runs between its steps: when *)
(* updates and navigate exclude each other, as the calls of this model do, *)
(* navigate never runs on a derived snapshot of the new inputs together    *)
(* with a ranked list built from earlier inputs, that is, every option it  *)
(* finds in the list is an option a build from the current inputs gives.   *)
(***************************************************************************)
C21_NavigateSeesOneSnapshot ==
    (Queried /\ call.ranked.present) =>
        \A k \in 1..Len(call.ranked.items) :
            \E l \in 1..Len(FreshBuild) : call.ranked.items[k] = FreshBuild[l]

(***************************************************************************)
(* C22.  navigate is a read-only query: it leaves the ranked list (and the *)
(* locations, the ship and the derived snapshot) as it found them, so the  *)
(* same call made again straight away ends the same way.                   *)
(***************************************************************************)
C22_NavigateReadOnly ==
    Queried =>
        /\ tradeOptions = call.ranked
        /\ NavigateNow(call.params, call.strict) = outcome

(***************************************************************************)
(* C23.  In every returned route the quantities of each good, summed over  *)
(* all the cargo lines (the trip-fuel line and a FUEL trade line count     *)
(* together), are at most the quantityAvailable of that good in the        *)
(* current marketplace: the list can be bought in full where the ship is.  *)
(***************************************************************************)
\* the quantity of one good over the lines of a cargo list
RECURSIVE QuantityOf(_, _)
QuantityOf(cargo, good) ==
    IF Len(cargo) = 0 THEN 0
    ELSE (IF Head(cargo).good = good THEN Head(cargo).quantity ELSE 0)
             + QuantityOf(Tail(cargo), good)

\* the quantity of a good the current marketplace has, 0 when it does not list it
AvailableHere(good) ==
    LET listed == { k \in 1..Len(currentMarketplace.items) :
                        currentMarketplace.items[k].symbol = good }
    IN  IF listed = {} THEN 0
        ELSE currentMarketplace.items[CHOOSE k \in listed : \A l \in listed : k <= l]
                 .quantityAvailable

C23_CargoCanBeBought ==
    RouteReturned =>
        \A k \in 1..Len(outcome.cargo) :
            QuantityOf(outcome.cargo, outcome.cargo[k].good)
                <= AvailableHere(outcome.cargo[k].good)

(***************************************************************************)
(* C24.  A returned route goes to a destination other than the ship's      *)
(* current location, and every goods line of its cargo names a good the    *)
(* current location's marketplace lists with quantityAvailable > 0.        *)
(***************************************************************************)
C24_RouteLeavesAndBuysHere ==
    RouteReturned =>
        /\ outcome.destination.symbol # currentLocation.symbol
        /\ \A k \in 2..Len(outcome.cargo) :
               \E l \in 1..Len(currentLocation.marketplace.items) :
                   /\ currentLocation.marketplace.items[l].symbol = outcome.cargo[k].good
                   /\ currentLocation.marketplace.items[l].quantityAvailable > 0

(***************************************************************************)
(* C25.  Every returned route pays when carried out as listed: the goods   *)
(* lines' quantity * (sell price at the destination - purchase price here) *)
(* add up to more than the trip-fuel quantity times the fuel unit cost.    *)
(***************************************************************************)
\* the margin of the goods lines, each line with the option it was bought for
RECURSIVE GoodsMargin(_, _)
GoodsMargin(lines, options) ==
    IF Len(lines) = 0 THEN 0
    ELSE Head(lines).quantity
             * (Head(options).trade.destinationGood.sellPricePerUnit
                    - Head(options).trade.localGood.purchasePricePerUnit)
         + GoodsMargin(Tail(lines), Tail(options))

C25_RoutePays ==
    RouteReturned =>
        LET toChosen == SelectSeq(call.ranked.items, LAMBDA option :
                            option.trade.destination = outcome.destination)
        IN  GoodsMargin(Tail(outcome.cargo), toChosen)
                - outcome.cargo[1].quantity * ToNumber(currentFuelUnitCost) > 0

(***************************************************************************)
(* C26.  Every cargo line after the trip-fuel line has a quantity of at    *)
(* least 1: no goods line of quantity 0 is appended.                       *)
(***************************************************************************)
C26_NoEmptyLine ==
    RouteReturned =>
        \A k \in 2..Len(outcome.cargo) : outcome.cargo[k].quantity >= 1
====
